---- MODULE Spec2Model ----
(***************************************************************************)
(* Model of src/app.py: the INAPROC e-katalog dashboard.                   *)
(*                                                                         *)
(* The program is a Streamlit script.  Every operator interaction (a       *)
(* widget change, a button click) re-executes the whole script from top to *)
(* bottom with the widgets' current values; the only state that survives a *)
(* run is the widget values and st.session_state.  One action of this      *)
(* module is therefore one interaction followed by one complete script     *)
(* run (ScriptRun), which issues the HTTP request, writes the session      *)
(* state and produces everything the page displays.                        *)
(*                                                                         *)
(* Python dicts are functions whose DOMAIN is the set of keys present.     *)
(* Field values and the search text are sequences of characters, so that   *)
(* the pattern matching of the filter is computed and not assumed.         *)
(* An Optional[str] is <<>> (None) or <<s>>.                               *)
(***************************************************************************)
EXTENDS Integers, Sequences, FiniteSets, TLC

VARIABLES
    secrets,          \* st.secrets, fixed for the life of the session
    token_input,      \* sidebar text_input "JWT Token INAPROC:"
    use_archive,      \* sidebar radio "Tipe Data:"
    limit,            \* sidebar number_input "Jumlah Data:"
    use_date_filter,  \* sidebar checkbox "Gunakan Filter Tanggal"
    start_date_input, \* date_input "Dari Tanggal:"   (a date <<y, m, d>>)
    end_date_input,   \* date_input "Sampai Tanggal:" (a date <<y, m, d>>)
    search,           \* text_input "Cari data:"
    session_state,    \* st.session_state
    fetch_button,     \* value of the fetch button in the last script run
    outcome,          \* how the client call of the last script run ended
    requests,         \* the HTTP GETs issued by the last script run
    shown             \* what the last script run displayed: element |-> content

vars == <<secrets, token_input, use_archive, limit, use_date_filter,
          start_date_input, end_date_input, search, session_state,
          fetch_button, outcome, requests, shown>>

(***************************************************************************)
(* Bounds of the model.                                                    *)
(***************************************************************************)
\* longest `data` array of a modelled response
MaxRows == 2
\* latest reading of datetime.now()
MaxClock == 1

(***************************************************************************)
(* Program constants.                                                      *)
(***************************************************************************)
MaxLimit == 1000
DefaultLimit == 10
Timeout == 30
JsonIndent == 2

None == <<>>
Some(s) == <<s>>

\* Python truthiness of an Optional[str]: None and "" are falsy.
Truthy(opt) == opt # None /\ opt[1] # ""

(***************************************************************************)
(* Input domains.                                                          *)
(***************************************************************************)
Tokens == {"", "jwt"}
SecretStores == {[k \in {} |-> ""],
                 [INAPROC_JWT_TOKEN |-> ""],
                 [INAPROC_JWT_TOKEN |-> "jwt"]}
Limits == {DefaultLimit, MaxLimit}
Dates == {<<2024, 1, 5>>}
Times == 0..MaxClock

Foo == <<"F", "o", "o">>
Bar == <<"B", "a", "r">>
Baz == <<"B", "a", "z">>
Qux == <<"Q", "u", "x">>

\* Records the upstream API may return; the last one lacks field b.
Catalog == << [a |-> Foo, b |-> Bar], [a |-> Baz, b |-> Qux], [a |-> Qux] >>

DataArrays == {SubSeq(Catalog, 1, n) : n \in 0..Len(Catalog)}

Metas == {[page |-> "1"],
          [page |-> "1", per_page |-> "10", total |-> "37"]}

\* JSON bodies: `data` and `meta` are each present or absent.
Bodies ==
    LET datas == {d \in DataArrays : Len(d) <= MaxRows}
    IN  {[k \in {} |-> ""]}
        \cup {[data |-> d] : d \in datas}
        \cup {[meta |-> m] : m \in Metas}
        \cup {[data |-> d, meta |-> m] : d \in datas, m \in Metas}

HttpStatuses == {"404", "500"}

\* What requests.get / raise_for_status / response.json can do.
HttpResults ==
    {[kind |-> "ok", body |-> b] : b \in Bodies}
    \cup {[kind |-> "http_error", status |-> s] : s \in HttpStatuses}
    \cup {[kind |-> "request_error"]}
    \cup {[kind |-> "invalid_json", as_request_exception |-> b] : b \in BOOLEAN}

SearchInputs == {<<>>, <<"f", "o", "o">>, <<".">>, <<"(">>}

(***************************************************************************)
(* Python dict helpers.                                                    *)
(***************************************************************************)
EmptyDict == [k \in {} |-> ""]

\* d.get(k, default)
DictGet(d, k, default) == IF k \in DOMAIN d THEN d[k] ELSE default

\* d[k] = v
DictSet(d, k, v) == (k :> v) @@ d

(***************************************************************************)
(* InaprocAPIClient                                                        *)
(***************************************************************************)
base_url == "https://data.inaproc.id/api"

\* self.headers.  Line 13 ends without a comma, so the adjacent literals
\* "application/json" "User-Agent" are one string, the value of Content-Type,
\* and the literal has no entry whose key is User-Agent (the `: "curl/8.5.0"`
\* that follows belongs to no entry; Python rejects the literal as written).
\* The model keeps the three entries the literal states.
Headers(jwt_token) ==
    ("Authorization" :> ("Bearer " \o jwt_token))
    @@ ("Accept" :> "application/json")
    @@ ("Content-Type" :> ("application/json" \o "User-Agent"))

\* Endpoint that ignores the archive flag.
Endpoint_AlwaysLive(archive) ==
    <<base_url, "v1", "ekatalog", "paket-e-purchasing">>

\* The endpoint URL as its sequence of path parts.
Endpoint(archive) ==
    IF archive
    THEN <<base_url, "v1", "ekatalog-archive", "paket-e-purchasing">>
    ELSE <<base_url, "v1", "ekatalog", "paket-e-purchasing">>

\* Params without the truthiness tests: both date keys are always set.
Params_AlwaysDates(lim, start_date, end_date) ==
    LET text(opt) == IF opt = None THEN "None" ELSE opt[1]
    IN  DictSet(DictSet("limit" :> lim, "start_date", text(start_date)),
                "end_date", text(end_date))

Params(lim, start_date, end_date) ==
    LET p0 == "limit" :> lim
        p1 == IF Truthy(start_date) THEN DictSet(p0, "start_date", start_date[1]) ELSE p0
        p2 == IF Truthy(end_date) THEN DictSet(p1, "end_date", end_date[1]) ELSE p1
    IN  p2

\* The arguments of requests.get.
Request(jwt_token, archive, lim, start_date, end_date) ==
    [method  |-> "GET",
     url     |-> Endpoint(archive),
     headers |-> Headers(jwt_token),
     params  |-> Params(lim, start_date, end_date),
     timeout |-> Timeout]

\* get_ekatalog_data from the try on: what it returns or raises for each thing
\* the HTTP layer can do, and the st.error messages it displays on the way.
get_ekatalog_data(result) ==
    CASE result.kind = "ok" ->
            [raised |-> FALSE, errors |-> <<>>, value |-> result.body]
      [] result.kind = "http_error" ->
            [raised |-> TRUE,
             errors |-> <<"HTTP Error: " \o result.status, "Response: body">>]
      [] result.kind = "request_error" ->
            [raised |-> TRUE, errors |-> <<"Request Error: cause">>]
      [] result.kind = "invalid_json" ->
            \* response.json() raises; whether the client's second handler
            \* sees it depends on the exception's class in the installed
            \* requests release.  It propagates either way.
            [raised |-> TRUE,
             errors |-> IF result.as_request_exception
                        THEN <<"Request Error: cause">> ELSE <<>>]

(***************************************************************************)
(* Sidebar inputs                                                          *)
(***************************************************************************)
\* jwt_token: the secret if the store has the key, else the text input.
ResolveToken(store, typed) ==
    IF "INAPROC_JWT_TOKEN" \in DOMAIN store THEN store["INAPROC_JWT_TOKEN"] ELSE typed

Digit(n) == <<"0", "1", "2", "3", "4", "5", "6", "7", "8", "9">>[n + 1]

\* date.strftime("%Y-%m-%d")
Strftime(d) ==
    Digit(d[1] \div 1000) \o Digit((d[1] \div 100) % 10)
    \o Digit((d[1] \div 10) % 10) \o Digit(d[1] % 10)
    \o "-" \o Digit(d[2] \div 10) \o Digit(d[2] % 10)
    \o "-" \o Digit(d[3] \div 10) \o Digit(d[3] % 10)

\* start_date, end_date: None unless the checkbox is ticked.
DateArgs(flag, start_in, end_in) ==
    IF flag
    THEN [start_date |-> Some(Strftime(start_in)), end_date |-> Some(Strftime(end_in))]
    ELSE [start_date |-> None, end_date |-> None]

(***************************************************************************)
(* Main content: the fetch action                                          *)
(***************************************************************************)
\* StoreResponse without the write of is_archive.
StoreResponse_NoSourceKind(ss, body, t, archive) ==
    DictSet(DictSet(ss, "ekatalog_data", body), "last_fetch", t)

\* The three session-state writes that follow a returned client call.
StoreResponse(ss, body, t, archive) ==
    DictSet(DictSet(DictSet(ss, "ekatalog_data", body), "last_fetch", t),
            "is_archive", archive)

\* SessionAfterCall with the source kind recorded before the call returns.
SessionAfterCall_WritesFirst(ss, call, t, archive) ==
    IF call.raised
    THEN DictSet(ss, "is_archive", archive)
    ELSE StoreResponse(ss, call.value, t, archive)

\* The body of the try block after the client call: the writes are skipped
\* when the call raised.
SessionAfterCall(ss, call, t, archive) ==
    IF call.raised THEN ss ELSE StoreResponse(ss, call.value, t, archive)

\* ShouldFetch without the credential test.
ShouldFetch_IgnoresCredential(jwt_token, button) == button

\* The client is called only with a credential and the button pressed.
ShouldFetch(jwt_token, button) == jwt_token # "" /\ button

\* The whole `if not jwt_token ... else ...` block.
MainContent(ss, jwt_token, button, archive, lim, dates, result, t) ==
    IF ShouldFetch(jwt_token, button)
    THEN LET call == get_ekatalog_data(result)
         IN  [session  |-> SessionAfterCall(ss, call, t, archive),
              requests |-> <<Request(jwt_token, archive, lim,
                                     dates.start_date, dates.end_date)>>,
              outcome  |-> result.kind,
              shown    |-> IF call.raised
                           THEN "errors" :> (call.errors \o <<"Gagal mengambil data">>)
                           ELSE EmptyDict]
    ELSE [session  |-> ss,
          requests |-> <<>>,
          outcome  |-> "none",
          shown    |-> IF jwt_token = "" THEN "guidance" :> TRUE ELSE EmptyDict]

(***************************************************************************)
(* The table: pandas.DataFrame over the records, and the search filter     *)
(***************************************************************************)
\* Column labels in the order pandas lists them for the modelled records.
ColumnOrder == <<"a", "b">>

\* The missing-value marker of a cell whose record lacks the column.
NaN == <<"NaN">>

\* pd.DataFrame(records): one row per record under a RangeIndex, one column
\* per key of any record, NaN where a record lacks the key.
DataFrame(records) ==
    LET present(c) == \E i \in 1..Len(records) : c \in DOMAIN records[i]
        cols == SelectSeq(ColumnOrder, present)
    IN  [columns |-> cols,
         rows    |-> [i \in 1..Len(records) |->
                        [index |-> i - 1,
                         cells |-> [c \in {cols[k] : k \in 1..Len(cols)} |->
                                      DictGet(records[i], c, NaN)]]]]

\* astype(str) of one cell.
AsTypeStr(cell) == IF cell = NaN THEN <<"n", "a", "n">> ELSE cell

\* Case folding of re.IGNORECASE over the modelled characters.
Lower(c) ==
    CASE c = "F" -> "f"
      [] c = "B" -> "b"
      [] c = "Q" -> "q"
      [] OTHER   -> c

\* re.compile(pat): over the modelled characters the only way a pattern is
\* rejected is an opening parenthesis, which nothing can close.
IsValidPattern(pat) == \A j \in 1..Len(pat) : pat[j] # "("

\* Whether the compiled pattern matches s at position i: "." matches any
\* character, every other modelled character matches itself, case folded.
MatchesAt(pat, s, i) ==
    \A j \in 1..Len(pat) : pat[j] = "." \/ Lower(pat[j]) = Lower(s[i + j - 1])

\* Series.str.contains(pat, case=False): re.search of the pattern in s.
StrContains(s, pat) ==
    \E i \in 1..(Len(s) - Len(pat) + 1) : MatchesAt(pat, s, i)

\* The lambda of the mask: any column's string form contains the pattern.
RowMatches(row, pat) ==
    \E c \in DOMAIN row.cells : StrContains(AsTypeStr(row.cells[c]), pat)

\* df[mask]
FilterRows(df, pat) ==
    LET keep(row) == RowMatches(row, pat)
    IN  [columns |-> df.columns, rows |-> SelectSeq(df.rows, keep)]

(***************************************************************************)
(* Exports                                                                 *)
(***************************************************************************)
\* One field of to_csv: NaN is written as the empty field.  The modelled
\* characters need no quoting and hold no line break.
CsvField(cell) == IF cell = NaN THEN <<>> ELSE cell

\* DataFrame.to_csv(index=...): one header line and one line per row; with
\* index=True every line starts with the index column.
ToCsv(df, index) ==
    [header |-> (IF index THEN <<"">> ELSE <<>>) \o df.columns,
     lines  |-> [i \in 1..Len(df.rows) |->
                   (IF index THEN << <<Digit(df.rows[i].index)>> >> ELSE <<>>)
                   \o [k \in 1..Len(df.columns) |->
                         CsvField(df.rows[i].cells[df.columns[k]])]]]

\* ExportCsv of the unfiltered frame.
ExportCsv_Unfiltered(df, filtered_df) == ToCsv(df, FALSE)

\* The CSV download: the filtered frame, without the index.
ExportCsv(df, filtered_df) == ToCsv(filtered_df, FALSE)

\* json.dumps(obj, indent=2, ensure_ascii=False): the document of obj.
JsonDumps(obj) == [document |-> obj, indent |-> JsonIndent, ensure_ascii |-> FALSE]

(***************************************************************************)
(* Display of the stored response                                          *)
(***************************************************************************)
\* The st.success line: source kind and time of the stored fetch.
StatusLine(ss) ==
    [source_type |-> IF DictGet(ss, "is_archive", FALSE) THEN "Archive" ELSE "Aktif",
     last_fetch  |-> ss["last_fetch"]]

\* The four st.metric of the "Informasi Data" block, shown only for a
\* truthy (non-empty) meta.
Metrics(response) ==
    LET meta == DictGet(response, "meta", EmptyDict)
    IN  IF meta # EmptyDict
        THEN "metrics" :> [total_data    |-> Len(DictGet(response, "data", <<>>)),
                           page          |-> DictGet(meta, "page", "N/A"),
                           per_page      |-> DictGet(meta, "per_page", "N/A"),
                           total_records |-> DictGet(meta, "total", "N/A")]
        ELSE EmptyDict

\* The table section and its else branch.  A rejected pattern raises in the
\* mask computation: the script run ends there, after the search box.
TableSection(response, pat) ==
    IF "data" \in DOMAIN response /\ response["data"] # <<>>
    THEN LET df == DataFrame(response["data"])
             filtered_df == IF pat # <<>> THEN FilterRows(df, pat) ELSE df
         IN  IF pat # <<>> /\ ~IsValidPattern(pat)
             THEN ("search_box" :> pat) @@ ("exception" :> "re.error")
             ELSE ("search_box" :> pat)
                  @@ (IF pat # <<>>
                      THEN "match_count" :> <<Len(filtered_df.rows), Len(df.rows)>>
                      ELSE EmptyDict)
                  @@ ("table" :> filtered_df)
                  @@ ("csv" :> ExportCsv(df, filtered_df))
                  @@ ("json" :> JsonDumps(response))
                  @@ ("raw" :> response)
    ELSE "empty_notice" :> TRUE

\* The `if 'ekatalog_data' in st.session_state` block.
Render(ss, pat) ==
    IF "ekatalog_data" \in DOMAIN ss
    THEN IF "last_fetch" \in DOMAIN ss
         THEN ("status" :> StatusLine(ss))
              @@ Metrics(ss["ekatalog_data"])
              @@ TableSection(ss["ekatalog_data"], pat)
         ELSE "exception" :> "KeyError"
    ELSE EmptyDict

(***************************************************************************)
(* One script run                                                          *)
(***************************************************************************)
NoDate == <<>>

\* The script from top to bottom with the given widget values.  A widget
\* the run does not create loses its value: the search box exists only in
\* the table section.
ScriptRun(typed, archive, lim, flag, start_in, end_in, pat, button, result, t) ==
    LET jwt_token == ResolveToken(secrets, typed)
        dates == DateArgs(flag, start_in, end_in)
        main == MainContent(session_state, jwt_token, button, archive, lim,
                            dates, result, t)
        view == Render(main.session, pat)
    IN  /\ secrets' = secrets
        /\ token_input' = typed
        /\ use_archive' = archive
        /\ limit' = lim
        /\ use_date_filter' = flag
        /\ start_date_input' = start_in
        /\ end_date_input' = end_in
        /\ search' = IF "search_box" \in DOMAIN view THEN pat ELSE <<>>
        /\ session_state' = main.session
        /\ fetch_button' = button
        /\ outcome' = main.outcome
        /\ requests' = main.requests
        /\ shown' = main.shown @@ view

\* A run in which the fetch button is not pressed: no HTTP result is read.
Unused == [kind |-> "request_error"]

Rerun(typed, archive, lim, flag, start_in, end_in, pat) ==
    ScriptRun(typed, archive, lim, flag, start_in, end_in, pat, FALSE, Unused, 0)

(***************************************************************************)
(* Initial state: the first script run of a new session                    *)
(***************************************************************************)
Init ==
    /\ secrets \in SecretStores
    /\ token_input = ""
    /\ use_archive = FALSE
    /\ limit = DefaultLimit
    /\ use_date_filter = FALSE
    /\ start_date_input = NoDate
    /\ end_date_input = NoDate
    /\ search = <<>>
    /\ session_state = EmptyDict
    /\ fetch_button = FALSE
    /\ outcome = "none"
    /\ requests = <<>>
    /\ shown = IF ResolveToken(secrets, "") = "" THEN "guidance" :> TRUE ELSE EmptyDict

(***************************************************************************)
(* Operator interactions                                                   *)
(***************************************************************************)
\* The token field exists only when the secret store lacks the key.
EnterToken ==
    /\ "INAPROC_JWT_TOKEN" \notin DOMAIN secrets
    /\ \E typed \in Tokens :
          Rerun(typed, use_archive, limit, use_date_filter,
                start_date_input, end_date_input, search)

SelectArchive ==
    \E archive \in BOOLEAN :
        Rerun(token_input, archive, limit, use_date_filter,
              start_date_input, end_date_input, search)

SetLimit ==
    \E lim \in Limits :
        Rerun(token_input, use_archive, lim, use_date_filter,
              start_date_input, end_date_input, search)

\* Ticking the checkbox creates the two date inputs with their defaults
\* (today and thirty days before, whatever today is); unticking drops them.
ToggleDateFilter ==
    IF use_date_filter
    THEN Rerun(token_input, use_archive, limit, FALSE, NoDate, NoDate, search)
    ELSE \E start_in \in Dates, end_in \in Dates :
            Rerun(token_input, use_archive, limit, TRUE, start_in, end_in, search)

PickStartDate ==
    /\ use_date_filter
    /\ \E start_in \in Dates :
          Rerun(token_input, use_archive, limit, TRUE, start_in, end_date_input, search)

PickEndDate ==
    /\ use_date_filter
    /\ \E end_in \in Dates :
          Rerun(token_input, use_archive, limit, TRUE, start_date_input, end_in, search)

\* The search box can be typed into only when the last run displayed it.
TypeSearch ==
    /\ "search_box" \in DOMAIN shown
    /\ \E pat \in SearchInputs :
          Rerun(token_input, use_archive, limit, use_date_filter,
                start_date_input, end_date_input, pat)

\* The fetch button: the run reads one HTTP result and the clock, which
\* never runs backwards.
ClickFetch ==
    \E result \in HttpResults, t \in Times :
        /\ t >= DictGet(session_state, "last_fetch", 0)
        /\ ScriptRun(token_input, use_archive, limit, use_date_filter,
                     start_date_input, end_date_input, search, TRUE, result, t)

\* A download button: the file is handed over and the script runs again.
ClickDownloadCsv ==
    /\ "csv" \in DOMAIN shown
    /\ Rerun(token_input, use_archive, limit, use_date_filter,
             start_date_input, end_date_input, search)

ClickDownloadJson ==
    /\ "json" \in DOMAIN shown
    /\ Rerun(token_input, use_archive, limit, use_date_filter,
             start_date_input, end_date_input, search)

Next ==
    \/ EnterToken
    \/ SelectArchive
    \/ SetLimit
    \/ ToggleDateFilter
    \/ PickStartDate
    \/ PickEndDate
    \/ TypeSearch
    \/ ClickFetch
    \/ ClickDownloadCsv
    \/ ClickDownloadJson

Spec == Init /\ [][Next]_vars

(***************************************************************************)
(* Properties                                                              *)
(***************************************************************************)
ErrorKinds == {"http_error", "request_error", "invalid_json"}

SessionKeys == {"ekatalog_data", "last_fetch", "is_archive"}

HasResponse == "ekatalog_data" \in DOMAIN session_state

\* The credential the last script run resolved.
Credential == ResolveToken(secrets, token_input)

\* C1: a script run whose client call raised (HTTP status error, transport
\* error, unparsable body) leaves st.session_state exactly as it was, shows
\* the error, and still displays the response fetched earlier, if any.
C1_FailedFetchKeepsSession ==
    [][outcome' \in ErrorKinds =>
          /\ session_state' = session_state
          /\ "errors" \in DOMAIN shown'
          /\ HasResponse =>
                /\ "status" \in DOMAIN shown'
                /\ shown'["status"].last_fetch = session_state["last_fetch"]
                /\ \/ "empty_notice" \in DOMAIN shown'
                   \/ "search_box" \in DOMAIN shown'
                /\ "raw" \in DOMAIN shown' =>
                      shown'["raw"] = session_state["ekatalog_data"]]_vars

C1_Witness ==
    /\ outcome \in ErrorKinds
    /\ HasResponse
    /\ "errors" \in DOMAIN shown
    /\ "raw" \in DOMAIN shown

\* C2: a script run issues exactly one HTTP GET when the credential is
\* non-empty and the fetch button was pressed, and none otherwise; a call
\* that failed was made once.
C2_OneGetPerFetch ==
    /\ Len(requests) = IF Credential # "" /\ fetch_button THEN 1 ELSE 0
    /\ \A i \in DOMAIN requests : requests[i].method = "GET"
    /\ Credential = "" => requests = <<>>
    /\ outcome \in ErrorKinds => Len(requests) = 1

C2_Witness ==
    /\ fetch_button
    /\ outcome = "http_error"
    /\ Len(requests) = 1

\* C3: the third part of the request URL is "ekatalog-archive" exactly when
\* the archive toggle is set and "ekatalog" otherwise; every other part of
\* the URL is the same in both cases.
C3_PathFollowsArchiveFlag ==
    \A i \in DOMAIN requests :
        /\ requests[i].url[3] = "ekatalog-archive" <=> use_archive
        /\ requests[i].url[3] = "ekatalog" <=> ~use_archive
        /\ [requests[i].url EXCEPT ![3] = "*"]
              = <<"https://data.inaproc.id/api", "v1", "*", "paket-e-purchasing">>

C3_Witness ==
    /\ requests # <<>>
    /\ use_archive
    /\ requests[1].url[3] = "ekatalog-archive"

\* C4: every request carries limit, with the value of the limit input; it
\* carries start_date (end_date) exactly when the date filter is ticked and
\* the formatted date is non-empty, and no date at all while it is unticked.
C4_QueryParameters ==
    \A i \in DOMAIN requests :
        LET params == requests[i].params
            sent(key, date_in) ==
                /\ key \in DOMAIN params
                     <=> (use_date_filter /\ Strftime(date_in) # "")
                /\ key \in DOMAIN params => params[key] = Strftime(date_in)
        IN  /\ "limit" \in DOMAIN params
            /\ params["limit"] = limit
            /\ IF use_date_filter
               THEN sent("start_date", start_date_input)
                    /\ sent("end_date", end_date_input)
               ELSE DOMAIN params = {"limit"}

C4_Witness ==
    /\ requests # <<>>
    /\ use_date_filter
    /\ DOMAIN requests[1].params = {"limit", "start_date", "end_date"}
    /\ requests[1].params["start_date"] = "2024-01-05"

\* C5: every request carries exactly the four headers Authorization
\* (Bearer <credential>), Accept, Content-Type (both application/json) and
\* User-Agent, each an entry of its own.
C5_FourHeaders ==
    \A i \in DOMAIN requests :
        LET headers == requests[i].headers
        IN  /\ DOMAIN headers = {"Authorization", "Accept", "Content-Type", "User-Agent"}
            /\ headers["Authorization"] = "Bearer " \o Credential
            /\ headers["Accept"] = "application/json"
            /\ headers["Content-Type"] = "application/json"
            /\ headers["User-Agent"] = "curl/8.5.0"

\* C6: with a stored response that has no meta at all, the run shows the
\* metrics: "N/A" for page, per_page and total, and the length of data as
\* the record count.
C6_MetricsWithoutMeta ==
    (HasResponse /\ "meta" \notin DOMAIN session_state["ekatalog_data"]) =>
        /\ "metrics" \in DOMAIN shown
        /\ shown["metrics"].page = "N/A"
        /\ shown["metrics"].per_page = "N/A"
        /\ shown["metrics"].total_records = "N/A"
        /\ shown["metrics"].total_data
              = Len(DictGet(session_state["ekatalog_data"], "data", <<>>))

\* C7: with a stored response whose data is absent or empty the run shows
\* the empty-state notice and no table, filter or export; with non-empty
\* data it shows the table and both exports and not the notice.
C7_TableOrNotice ==
    HasResponse =>
        IF DictGet(session_state["ekatalog_data"], "data", <<>>) = <<>>
        THEN /\ "empty_notice" \in DOMAIN shown
             /\ DOMAIN shown \cap {"table", "search_box", "csv", "json"} = {}
        ELSE /\ {"table", "csv", "json"} \subseteq DOMAIN shown
             /\ "empty_notice" \notin DOMAIN shown

\* Whether pat occurs in s as a literal substring, letter case ignored.
LiteralContains(s, pat) ==
    \E i \in 1..(Len(s) - Len(pat) + 1) :
        \A j \in 1..Len(pat) : Lower(pat[j]) = Lower(s[i + j - 1])

\* C8: the table holds exactly the records of which at least one field
\* contains the search text as a literal substring, letter case ignored;
\* an empty search text keeps every record.
C8_LiteralSubstringFilter ==
    (HasResponse /\ DictGet(session_state["ekatalog_data"], "data", <<>>) # <<>>) =>
        LET records == session_state["ekatalog_data"]["data"]
            kept == {i \in 1..Len(records) :
                        \E c \in DOMAIN records[i] : LiteralContains(records[i][c], search)}
        IN  /\ "table" \in DOMAIN shown
            /\ {shown["table"].rows[k].index + 1 : k \in 1..Len(shown["table"].rows)} = kept
            /\ search = <<>> => Len(shown["table"].rows) = Len(records)

\* C9: when the exports are offered, the JSON export is the whole stored
\* response whatever the filter; the CSV export has one header line naming
\* the columns and nothing else, and one line per row of the displayed
\* (filtered) table, holding that row's fields and no index.
C9_Exports ==
    "csv" \in DOMAIN shown =>
        LET csv == shown["csv"]
            table == shown["table"]
        IN  /\ "json" \in DOMAIN shown
            /\ shown["json"].document = session_state["ekatalog_data"]
            /\ csv.header = table.columns
            /\ Len(csv.lines) = Len(table.rows)
            /\ \A i \in 1..Len(csv.lines) :
                  /\ Len(csv.lines[i]) = Len(table.columns)
                  /\ \A k \in 1..Len(table.columns) :
                        csv.lines[i][k] = CsvField(table.rows[i].cells[table.columns[k]])

C9_Witness ==
    /\ "csv" \in DOMAIN shown
    /\ search # <<>>
    /\ Len(shown["csv"].lines) = 1
    /\ Len(session_state["ekatalog_data"]["data"]) = 2
    /\ Len(shown["json"].document["data"]) = 2

\* C10: st.session_state holds its three keys together or not at all; it
\* changes only in a run whose fetch returned, which stores the response
\* together with the time and the archive toggle of that run; the status
\* line names the stored source kind, not the toggle.
C10_SessionState ==
    /\ session_state = EmptyDict
    /\ [][/\ DOMAIN session_state' \in {{}, SessionKeys}
          /\ session_state' # session_state =>
                /\ fetch_button'
                /\ outcome' = "ok"
          /\ outcome' = "ok" =>
                /\ DOMAIN session_state' = SessionKeys
                /\ session_state'["is_archive"] = use_archive'
          /\ "status" \in DOMAIN shown' =>
                shown'["status"].source_type
                   = IF session_state'["is_archive"] THEN "Archive" ELSE "Aktif"]_vars

C10_Witness ==
    /\ "status" \in DOMAIN shown
    /\ session_state["is_archive"]
    /\ ~use_archive
    /\ shown["status"].source_type = "Archive"
    /\ outcome = "none"

====
